---- MODULE Spec2Model ----
(***************************************************************************)
(* Historical data replay of zazhang/backtester:                           *)
(*   fundamental_layer/data.py  HistoricCSVDataHandler (flat files) and    *)
(*                              HistoricSQLDataHandler (relational store). *)
(* A handler is built from per-symbol raw data, reindexes every symbol on  *)
(* a combined index with forward fill, and is then driven by update_bars   *)
(* (one tick) and read by get_latest_bars.                                 *)
(*                                                                         *)
(* Encoding of dates.  A datetime is the number YYYYMMDD, so that < on     *)
(* numbers is chronological order.  The index label of a CSV row is the    *)
(* unparsed string 'MM/DD/YY'; it is modelled as the number MMDDYY, whose  *)
(* order is exactly the order of those fixed-width strings.  The store     *)
(* backend's index label is the date itself.                               *)
(***************************************************************************)
EXTENDS Integers, Sequences, FiniteSets, TLC

VARIABLES
    flavor,              \* "csv": HistoricCSVDataHandler, "sql": HistoricSQLDataHandler
    symbol_list,         \* self.symbol_list
    source,              \* the files / tables the handler was built from
    symbol_data,         \* self.symbol_data[s]: the reindexed frame under iterrows()
    cursor,              \* rows of symbol_data[s] the iterrows() iterator has consumed
    all_data_dic,        \* self.all_data_dic (store backend only)
    latest_symbol_data,  \* self.latest_symbol_data
    continue_backtest,   \* self.continue_backtest
    events,              \* self.events, the event queue
    last,                \* the last call made on the handler and its outcome
    calls,               \* number of update_bars calls made so far
    build,               \* progress and outcome of the store handler's construction
    bought               \* BuyAndHoldStrategy.bought

vars == <<flavor, symbol_list, source, symbol_data, cursor, all_data_dic,
          latest_symbol_data, continue_backtest, events, last, calls, build, bought>>

-----------------------------------------------------------------------------
(* Bounds of the model *)

\* largest number of data rows in one symbol's file or table
MaxRows == 3
\* largest number of update_bars calls in one run
MaxCalls == 5
\* largest N passed to get_latest_bars
MaxN == 3

-----------------------------------------------------------------------------
(* Inputs: symbols, trading days and quotes *)

Symbols == {"AAPL", "MSFT"}

\* the trading days a file or table may hold, as YYYYMMDD
Days == {20191230, 20200102, 20200103, 20200104, 20200106}

Range(f) == {f[i] : i \in DOMAIN f}

Max(S) == CHOOSE x \in S : \A y \in S : y <= x

Min(S) == CHOOSE x \in S : \A y \in S : x <= y

RECURSIVE SortedSeq(_)
\* the elements of a finite set of numbers, ascending
SortedSeq(S) == IF S = {} THEN <<>> ELSE <<Min(S)>> \o SortedSeq(S \ {Min(S)})

\* the value pandas puts in a row that reindex could not fill
NaN == -1

\* Python's None
None == <<"None">>

\* the close of symbol s on a day: AAPL closes 100, 101, 104 on 01/02, 01/03, 01/06
Close(s, day) == (IF s = "AAPL" THEN 98 ELSE 298) + (day % 100)

\* a date written as '%m/%d/%y', as the number MMDDYY
strftime(day) == (day % 10000) * 100 + ((day \div 10000) % 100)

\* datetime.datetime.strptime(label, '%m/%d/%y'), as the number YYYYMMDD
strptime(label) ==
    LET yy == label % 100
        mmdd == label \div 100
        year == IF yy < 69 THEN 2000 + yy ELSE 1900 + yy
    IN  year * 10000 + mmdd

\* the first line of a CSV file
HeaderLine == <<"datetime", "open", "low", "high", "close", "volume", "oi">>

\* one line of <symbol>.csv: datetime, open, low, high, close, volume, oi
CsvLine(s, day) ==
    LET c == Close(s, day)
    IN  <<strftime(day), c - 1, c - 2, c + 2, c, 1000 + c, 7>>

\* one row of table <symbol>: date, open, high, low, close, volume, price_change
SqlRow(s, day) ==
    LET c == Close(s, day)
    IN  <<day, c - 1, c + 2, c - 2, c, 1000 + c, 1>>

\* the file <symbol>.csv holding the given days, in chronological order
CsvFile(s, days) ==
    LET d == SortedSeq(days)
    IN  <<HeaderLine>> \o [i \in 1..Len(d) |-> CsvLine(s, d[i])]

\* the table <symbol> holding the given days, in chronological order
SqlTable(s, days) ==
    LET d == SortedSeq(days)
    IN  [i \in 1..Len(d) |-> SqlRow(s, d[i])]

-----------------------------------------------------------------------------
(* Data frames: a sequence of [index, row], row being the six value columns *)

Index(frame) == [i \in 1..Len(frame) |-> frame[i].index]

NaNRow == <<NaN, NaN, NaN, NaN, NaN, NaN>>

\* column 1 becomes the index, the other six the row
FrameOf(lines) ==
    [i \in 1..Len(lines) |->
        [index |-> lines[i][1],
         row   |-> <<lines[i][2], lines[i][3], lines[i][4],
                     lines[i][5], lines[i][6], lines[i][7]>>]]

\* pd.read_csv(..., header=0, index_col=0, names=[...]): line 0 is the header
\* and is replaced by names, the remaining lines are the data
read_csv(file) == FrameOf(Tail(file))

\* pd.read_sql(values_qry, conn, index_col='date')
_get_prices(table) == FrameOf(table)

\* Index.is_monotonic_increasing (labels are unique)
IsMonotonic(index) == \A i, j \in 1..Len(index) : i < j => index[i] < index[j]

\* the row reindex(method='pad') gives label t: the row of the last label <= t
PadRow(frame, t) ==
    LET P == {p \in 1..Len(frame) : frame[p].index <= t}
    IN  IF P = {} THEN NaNRow ELSE frame[Max(P)].row

\* DataFrame.reindex(index=target, method='pad'); a frame whose index is
\* identical to the target is returned as a copy
reindex(frame, target) ==
    IF Index(frame) = target
    THEN frame
    ELSE [i \in 1..Len(target) |-> [index |-> target[i], row |-> PadRow(frame, target[i])]]

\* Index.union: the sorted union of two indexes
IndexUnion(a, b) == SortedSeq(Range(a) \cup Range(b))

\* comb_index before the first symbol is loaded (None)
NoIndex == [none |-> TRUE, labels |-> <<>>]

RECURSIVE CombLoop(_, _, _, _)
\* the first loop of _open_convert_csv_files / _open_convert_database_data:
\* comb_index is bound to the first symbol's index; comb_index.union(...)
\* returns a new index, which the loop does not keep
CombLoop(list, frames, i, comb_index) ==
    IF i > Len(list) THEN comb_index
    ELSE LET idx == Index(frames[list[i]])
         IN  IF comb_index.none
             THEN CombLoop(list, frames, i + 1, [none |-> FALSE, labels |-> idx])
             ELSE LET discarded == IndexUnion(comb_index.labels, idx)
                  IN  CombLoop(list, frames, i + 1, comb_index)

\* comb_index after the first loop
comb_index_of(list, frames) == CombLoop(list, frames, 1, NoIndex).labels

\* the raw frame of each symbol of the list
RawFrames(flv, list, src) ==
    [s \in Range(list) |-> IF flv = "csv" THEN read_csv(src[s]) ELSE _get_prices(src[s])]

\* the symbols' frames left as loaded, not reindexed
Aligned_raw(flv, list, src) == RawFrames(flv, list, src)

\* the second loop: every symbol reindexed on comb_index
Aligned(flv, list, src) ==
    LET frames == RawFrames(flv, list, src)
        comb   == comb_index_of(list, frames)
    IN  [s \in Range(list) |-> reindex(frames[s], comb)]

-----------------------------------------------------------------------------
(* Construction *)

SymbolLists ==
    {<<s>> : s \in Symbols} \cup
    {l \in {<<s, t>> : s \in Symbols, t \in Symbols} : l[1] # l[2]}

DaySets == {D \in SUBSET Days : Cardinality(D) <= MaxRows}

\* reindex(method='pad') is defined for a frame whose index is monotonic
Loadable(flv, list, src) ==
    LET frames == RawFrames(flv, list, src)
        comb   == comb_index_of(list, frames)
    IN  \A s \in Range(list) :
            Index(frames[s]) = comb \/ IsMonotonic(Index(frames[s]))

NoCall == [op |-> "init", symbol |-> "", N |-> 0, status |-> "", value |-> <<>>,
           exhausted |-> FALSE]

\* the construction record of a handler whose __init__ has returned; a store
\* handler has its engine and has queried every symbol
Built(flv, list) ==
    [pc |-> "ready",
     db_flavor |-> IF flv = "sql" THEN "SQLAlchemy" ELSE "",
     fault |-> "none",
     connection |-> IF flv = "sql" THEN "engine" ELSE "",
     loaded |-> Len(list),
     queries |-> IF flv = "sql" THEN Len(list) ELSE 0,
     error |-> ""]

\* BuyAndHoldStrategy._calculate_initial_bought
_calculate_initial_bought(list) == [s \in Range(list) |-> FALSE]

\* HistoricCSVDataHandler.__init__ / HistoricSQLDataHandler.__init__
Init ==
    /\ flavor \in {"csv", "sql"}
    /\ symbol_list \in SymbolLists
    /\ \E days \in [Range(symbol_list) -> DaySets] :
          source = [s \in Range(symbol_list) |->
                      IF flavor = "csv" THEN CsvFile(s, days[s]) ELSE SqlTable(s, days[s])]
    /\ Loadable(flavor, symbol_list, source)
    /\ symbol_data = Aligned(flavor, symbol_list, source)
    /\ cursor = [s \in Range(symbol_list) |-> 0]
    /\ all_data_dic = IF flavor = "sql" THEN Aligned(flavor, symbol_list, source) ELSE <<>>
    /\ latest_symbol_data = [s \in Range(symbol_list) |-> <<>>]
    /\ continue_backtest = TRUE
    /\ events = <<>>
    /\ last = NoCall
    /\ calls = 0
    /\ build = Built(flavor, symbol_list)
    /\ bought = _calculate_initial_bought(symbol_list)

-----------------------------------------------------------------------------
(* update_bars *)

MarketEvent == [type |-> "MARKET"]

\* the tuple with the low and high columns taken from each other's position
_get_new_bar_swapped(symbol, b) ==
    <<symbol,
      IF flavor = "csv" THEN strptime(b.index) ELSE b.index,
      b.row[1], b.row[3], b.row[2], b.row[4], b.row[5]>>

\* the tuple _get_new_bar yields for row b of symbol's frame: the file backend
\* parses the label, the store backend passes it on
_get_new_bar(symbol, b) ==
    <<symbol,
      IF flavor = "csv" THEN strptime(b.index) ELSE b.index,
      b.row[1], b.row[2], b.row[3], b.row[4], b.row[5]>>

\* an iteration that restarts the exhausted iterator from the first row
UpdateStep_rewind(st, s) ==
    IF st.cursor[s] >= Len(symbol_data[s])
    THEN [st EXCEPT !.cont = FALSE, !.stopped = TRUE, !.cursor[s] = 0]
    ELSE LET bar == _get_new_bar(s, symbol_data[s][st.cursor[s] + 1])
         IN  [st EXCEPT !.cursor[s] = @ + 1, !.latest[s] = Append(@, bar)]

\* an iteration that, on an exhausted symbol, carries its last bar forward
UpdateStep_repeat_last(st, s) ==
    IF st.cursor[s] >= Len(symbol_data[s])
    THEN LET st1 == [st EXCEPT !.cont = FALSE, !.stopped = TRUE]
         IN  IF st.latest[s] = <<>> THEN st1
             ELSE [st1 EXCEPT !.latest[s] = Append(@, st.latest[s][Len(st.latest[s])])]
    ELSE LET bar == _get_new_bar(s, symbol_data[s][st.cursor[s] + 1])
         IN  [st EXCEPT !.cursor[s] = @ + 1, !.latest[s] = Append(@, bar)]

\* an iteration that puts the new bar at the head of the buffer
UpdateStep_prepend(st, s) ==
    IF st.cursor[s] >= Len(symbol_data[s])
    THEN [st EXCEPT !.cont = FALSE, !.stopped = TRUE]
    ELSE LET bar == _get_new_bar(s, symbol_data[s][st.cursor[s] + 1])
         IN  [st EXCEPT !.cursor[s] = @ + 1, !.latest[s] = <<bar>> \o @]

\* an iteration that leaves the continuation flag set on StopIteration
UpdateStep_keep_running(st, s) ==
    IF st.cursor[s] >= Len(symbol_data[s])
    THEN [st EXCEPT !.stopped = TRUE]
    ELSE LET bar == _get_new_bar(s, symbol_data[s][st.cursor[s] + 1])
         IN  [st EXCEPT !.cursor[s] = @ + 1, !.latest[s] = Append(@, bar)]

\* one iteration of the for loop of update_bars, for symbol s;
\* st is [cursor, latest, cont, stopped]
UpdateStep(st, s) ==
    IF st.cursor[s] >= Len(symbol_data[s])
    THEN \* StopIteration
         [st EXCEPT !.cont = FALSE, !.stopped = TRUE]
    ELSE LET bar == _get_new_bar(s, symbol_data[s][st.cursor[s] + 1])
             st1 == [st EXCEPT !.cursor[s] = @ + 1]
         IN  IF bar # None
             THEN [st1 EXCEPT !.latest[s] = Append(@, bar)]
             ELSE st1

RECURSIVE UpdateLoop(_, _)
\* the for loop of update_bars from the i-th symbol of symbol_list on
UpdateLoop(i, st) ==
    IF i > Len(symbol_list) THEN st
    ELSE UpdateLoop(i + 1, UpdateStep(st, symbol_list[i]))

\* one MarketEvent put for every symbol of the list
PutMarketEvent_per_symbol(queue) ==
    queue \o [i \in 1..Len(symbol_list) |-> MarketEvent]

\* self.events.put(MarketEvent()), the last statement of update_bars
PutMarketEvent(queue) == Append(queue, MarketEvent)

update_bars ==
    /\ calls < MaxCalls
    /\ LET st == UpdateLoop(1, [cursor |-> cursor, latest |-> latest_symbol_data,
                                cont |-> continue_backtest, stopped |-> FALSE])
       IN  /\ cursor' = st.cursor
           /\ latest_symbol_data' = st.latest
           /\ continue_backtest' = st.cont
           /\ last' = [op |-> "update_bars", symbol |-> "", N |-> 0, status |-> "ok",
                       value |-> <<>>, exhausted |-> st.stopped]
           /\ events' = PutMarketEvent(events)
    /\ calls' = calls + 1
    /\ UNCHANGED <<build, bought, flavor, symbol_list, source, symbol_data, all_data_dic>>

-----------------------------------------------------------------------------
(* get_latest_bars *)

\* Python's bars_list[-N:] for N >= 0; -0 is 0, so N = 0 slices from the start
SliceLast(bars_list, N) ==
    LET n     == Len(bars_list)
        start == IF N = 0 THEN 0 ELSE IF n - N < 0 THEN 0 ELSE n - N
    IN  SubSeq(bars_list, start + 1, n)

\* HistoricCSVDataHandler.get_latest_bars: [status, value]
csv_get_latest_bars(symbol, N) ==
    IF symbol \notin DOMAIN latest_symbol_data
    THEN [status |-> "None", value |-> <<>>]
    ELSE [status |-> "ok", value |-> SliceLast(latest_symbol_data[symbol], N)]

\* get_latest_bars of the store backend without the empty-buffer check
sql_get_latest_bars_permissive(symbol, bars) ==
    IF symbol \notin DOMAIN latest_symbol_data
    THEN [status |-> "SymbolNotFound", value |-> <<>>]
    ELSE [status |-> "ok", value |-> SliceLast(latest_symbol_data[symbol], bars)]

\* HistoricSQLDataHandler.get_latest_bars: [status, value]
sql_get_latest_bars(symbol, bars) ==
    IF symbol \notin DOMAIN latest_symbol_data
    THEN [status |-> "SymbolNotFound", value |-> <<>>]
    ELSE IF latest_symbol_data[symbol] = <<>>
         THEN [status |-> "NotInitialized", value |-> <<>>]
         ELSE [status |-> "ok", value |-> SliceLast(latest_symbol_data[symbol], bars)]

\* get_latest_bars that keeps only the returned slice in the buffer
get_latest_bars_truncating(symbol, N) ==
    /\ LET r == IF flavor = "csv" THEN csv_get_latest_bars(symbol, N)
                ELSE sql_get_latest_bars(symbol, N)
       IN  /\ last' = [op |-> "get_latest_bars", symbol |-> symbol, N |-> N,
                       status |-> r.status, value |-> r.value, exhausted |-> FALSE]
           /\ latest_symbol_data' =
                 IF r.status = "ok"
                 THEN [latest_symbol_data EXCEPT ![symbol] = r.value]
                 ELSE latest_symbol_data
    /\ UNCHANGED <<build, bought, flavor, symbol_list, source, symbol_data, cursor, all_data_dic,
                   continue_backtest, events, calls>>

get_latest_bars(symbol, N) ==
    /\ LET r == IF flavor = "csv" THEN csv_get_latest_bars(symbol, N)
                ELSE sql_get_latest_bars(symbol, N)
       IN  last' = [op |-> "get_latest_bars", symbol |-> symbol, N |-> N,
                    status |-> r.status, value |-> r.value, exhausted |-> FALSE]
    /\ UNCHANGED <<build, bought, flavor, symbol_list, source, symbol_data, cursor, all_data_dic,
                   latest_symbol_data, continue_backtest, events, calls>>

-----------------------------------------------------------------------------
(* get_latest_bar, get_latest_bar_datetime (store backend only) *)

\* get_latest_bar returning the oldest bar of the buffer instead of the newest
sql_get_latest_bar_first(symbol) ==
    IF symbol \notin DOMAIN latest_symbol_data
    THEN [status |-> "SymbolNotFound", value |-> <<>>]
    ELSE IF latest_symbol_data[symbol] = <<>>
         THEN [status |-> "NotInitialized", value |-> <<>>]
         ELSE [status |-> "ok", value |-> latest_symbol_data[symbol][1]]

\* HistoricSQLDataHandler.get_latest_bar: [status, value], bars_list[-1]
sql_get_latest_bar(symbol) ==
    IF symbol \notin DOMAIN latest_symbol_data
    THEN [status |-> "SymbolNotFound", value |-> <<>>]
    ELSE IF latest_symbol_data[symbol] = <<>>
         THEN [status |-> "NotInitialized", value |-> <<>>]
         ELSE [status |-> "ok",
               value |-> latest_symbol_data[symbol][Len(latest_symbol_data[symbol])]]

\* HistoricSQLDataHandler.get_latest_bar_datetime: [status, value], bars_list[-1][1]
sql_get_latest_bar_datetime(symbol) ==
    IF symbol \notin DOMAIN latest_symbol_data
    THEN [status |-> "SymbolNotFound", value |-> <<>>]
    ELSE IF latest_symbol_data[symbol] = <<>>
         THEN [status |-> "NotInitialized", value |-> <<>>]
         ELSE [status |-> "ok",
               value |-> latest_symbol_data[symbol][Len(latest_symbol_data[symbol])][2]]

get_latest_bar(symbol) ==
    /\ flavor = "sql"
    /\ LET r == sql_get_latest_bar(symbol)
       IN  last' = [op |-> "get_latest_bar", symbol |-> symbol, N |-> 0,
                    status |-> r.status, value |-> r.value, exhausted |-> FALSE]
    /\ UNCHANGED <<build, bought, flavor, symbol_list, source, symbol_data, cursor, all_data_dic,
                   latest_symbol_data, continue_backtest, events, calls>>

get_latest_bar_datetime(symbol) ==
    /\ flavor = "sql"
    /\ LET r == sql_get_latest_bar_datetime(symbol)
       IN  last' = [op |-> "get_latest_bar_datetime", symbol |-> symbol, N |-> 0,
                    status |-> r.status, value |-> r.value, exhausted |-> FALSE]
    /\ UNCHANGED <<build, bought, flavor, symbol_list, source, symbol_data, cursor, all_data_dic,
                   latest_symbol_data, continue_backtest, events, calls>>

-----------------------------------------------------------------------------

Next ==
    \/ update_bars
    \/ \E symbol \in Symbols, N \in 0..MaxN : get_latest_bars(symbol, N)
    \/ \E symbol \in Symbols : get_latest_bar(symbol)
    \/ \E symbol \in Symbols : get_latest_bar_datetime(symbol)

Spec == Init /\ [][Next]_vars

-----------------------------------------------------------------------------
(* The replay driver: ticks for as long as the continuation flag is set *)

\* one heartbeat of the run loop: update_bars is called while continue_backtest
DriverTick == continue_backtest /\ update_bars

DriverNext == DriverTick

\* the loop runs on its own thread of control and takes every heartbeat
SpecDriver == Init /\ [][DriverNext]_vars /\ WF_vars(DriverTick)

-----------------------------------------------------------------------------
(* Construction of the store handler, step by step *)

\* what can be wrong with the connection target: nothing; a target that
\* create_engine / connect rejects; a server that cannot be reached, which an
\* engine finds out when it first opens a connection
Faults == {"none", "bad_target", "unreachable"}

DbFlavors == {"sqlite3", "SQLAlchemy"}

\* pd.read_sql that hides a failure and hands back an empty frame
read_sql_swallow(connection, fault, table) ==
    IF connection = "engine" /\ fault = "none"
    THEN [raised |-> FALSE, error |-> "", frame |-> _get_prices(table)]
    ELSE [raised |-> FALSE, error |-> "", frame |-> <<>>]

\* _get_prices: pd.read_sql(values_qry, conn, index_col='date').  The engine
\* opens its connection here; the statement runs only on an open connection
read_sql(connection, fault, table) ==
    IF connection = "engine" /\ fault = "none"
    THEN [raised |-> FALSE, error |-> "", frame |-> _get_prices(table)]
    ELSE [raised |-> TRUE,
          error |-> IF connection = "engine" THEN "OperationalError" ELSE "AttributeError",
          frame |-> <<>>]

\* _connect_to_database.  The module never imports sqlite3, so that leg raises
\* NameError on the name itself, and again in its except clause.
\* create_engine opens nothing; when it raises, `except sqlalchemy.exc` names
\* a module, catches nothing, and the exception leaves the method.  Any other
\* flavor falls off the end of the method: None
_connect_to_database(db_flavor, fault) ==
    IF db_flavor = "sqlite3"
    THEN [raised |-> TRUE, error |-> "NameError", connection |-> "None"]
    ELSE IF db_flavor = "SQLAlchemy"
         THEN IF fault = "bad_target"
              THEN [raised |-> TRUE, error |-> "ArgumentError", connection |-> "None"]
              ELSE [raised |-> FALSE, error |-> "", connection |-> "engine"]
         ELSE [raised |-> FALSE, error |-> "", connection |-> "None"]

\* HistoricSQLDataHandler.__init__ up to the call of _open_convert_database_data
InitConnect ==
    /\ flavor = "sql"
    /\ symbol_list \in SymbolLists
    /\ \E days \in [Range(symbol_list) -> DaySets] :
          source = [s \in Range(symbol_list) |-> SqlTable(s, days[s])]
    /\ symbol_data = <<>>
    /\ cursor = <<>>
    /\ all_data_dic = <<>>
    /\ latest_symbol_data = <<>>
    /\ continue_backtest = TRUE
    /\ events = <<>>
    /\ last = NoCall
    /\ calls = 0
    /\ build \in [pc : {"connect"}, db_flavor : DbFlavors, fault : Faults,
                  connection : {""}, loaded : {0}, queries : {0}, error : {""}]
    /\ bought = <<>>

\* an exception leaves __init__: no handler is returned
Abort(error) == [build EXCEPT !.pc = "aborted", !.error = error]

\* connection = self._connect_to_database(self.database, self.flavor)
connect_to_database ==
    /\ build.pc = "connect"
    /\ LET r == _connect_to_database(build.db_flavor, build.fault)
       IN  build' = IF r.raised
                    THEN Abort(r.error)
                    ELSE [build EXCEPT !.pc = "load", !.connection = r.connection]
    /\ UNCHANGED <<flavor, symbol_list, source, symbol_data, cursor, all_data_dic,
                   latest_symbol_data, continue_backtest, events, last, calls, bought>>

\* one pass of the first loop: the query of the next symbol of the list
load_symbol ==
    /\ build.pc = "load"
    /\ build.loaded < Len(symbol_list)
    /\ LET s == symbol_list[build.loaded + 1]
           r == read_sql(build.connection, build.fault, source[s])
       IN  IF r.raised
           THEN /\ build' = Abort(r.error)
                /\ UNCHANGED <<symbol_data, latest_symbol_data>>
           ELSE /\ build' = [build EXCEPT !.loaded = @ + 1, !.queries = @ + 1]
                /\ symbol_data' = (s :> r.frame) @@ symbol_data
                /\ latest_symbol_data' = (s :> <<>>) @@ latest_symbol_data
    /\ UNCHANGED <<flavor, symbol_list, source, cursor, all_data_dic,
                   continue_backtest, events, last, calls, bought>>

\* the second loop, after which __init__ returns the handler
reindex_all ==
    /\ build.pc = "load"
    /\ build.loaded = Len(symbol_list)
    /\ LET comb == comb_index_of(symbol_list, symbol_data)
           done == [s \in Range(symbol_list) |-> reindex(symbol_data[s], comb)]
       IN  /\ symbol_data' = done
           /\ all_data_dic' = done
    /\ cursor' = [s \in Range(symbol_list) |-> 0]
    /\ build' = [build EXCEPT !.pc = "ready"]
    /\ UNCHANGED <<flavor, symbol_list, source, latest_symbol_data,
                   continue_backtest, events, last, calls, bought>>

NextConnect == connect_to_database \/ load_symbol \/ reindex_all

SpecConnect == InitConnect /\ [][NextConnect]_vars

-----------------------------------------------------------------------------
(* BuyAndHoldStrategy (bhs.py) over a handler *)

\* the types an event handed to calculate_signals can carry
EventTypes == {"MARKET", "SIGNAL", "ORDER", "FILL"}

\* SignalEvent(symbol, datetime, signal_type, strength)
SignalEvent(symbol, datetime, signal_type, strength) ==
    [type |-> "SIGNAL", symbol |-> symbol, datetime |-> datetime,
     signal_type |-> signal_type, strength |-> strength]

\* self.bars.get_latest_bars(s, N=1): the file handler's parameter is N; the
\* store handler's is called bars, so the keyword N is a TypeError there
bars_get_latest_bars(s) ==
    IF flavor = "csv"
    THEN csv_get_latest_bars(s, 1)
    ELSE [status |-> "TypeError", value |-> <<>>]

\* the loop body that puts the signal and leaves bought[s] as it was
SignalStep_keep_flag(st, s) ==
    LET r == bars_get_latest_bars(s)
    IN  IF st.status # "ok" THEN st
        ELSE IF r.status \notin {"ok", "None"} THEN [st EXCEPT !.status = r.status]
        ELSE IF r.status = "ok" /\ r.value # <<>> /\ st.bought[s] = FALSE
             THEN [st EXCEPT !.events =
                       Append(@, SignalEvent(r.value[1][1], r.value[1][2], "LONG", 1))]
             ELSE st

\* the body of `for s in self.symbol_list` of calculate_signals, on
\* st = [events, bought, status]; an exception ends the loop
SignalStep(st, s) ==
    LET r == bars_get_latest_bars(s)
        strength == 1
    IN  IF st.status # "ok" THEN st
        ELSE IF r.status \notin {"ok", "None"} THEN [st EXCEPT !.status = r.status]
        ELSE IF r.status = "ok" /\ r.value # <<>>
             THEN IF st.bought[s] = FALSE
                  THEN [st EXCEPT !.events =
                            Append(@, SignalEvent(r.value[1][1], r.value[1][2],
                                                  "LONG", strength)),
                                  !.bought[s] = TRUE]
                  ELSE st
             ELSE st

RECURSIVE SignalLoop(_, _)
\* for s in self.symbol_list, from the i-th symbol on
SignalLoop(i, st) ==
    IF i > Len(symbol_list) THEN st
    ELSE SignalLoop(i + 1, SignalStep(st, symbol_list[i]))

\* BuyAndHoldStrategy.calculate_signals(event); last.symbol records the type
\* of the event that was handled
calculate_signals(event) ==
    /\ LET st0 == [events |-> events, bought |-> bought, status |-> "ok"]
           st  == IF event.type = "MARKET" THEN SignalLoop(1, st0) ELSE st0
       IN  /\ events' = st.events
           /\ bought' = st.bought
           /\ last' = [op |-> "calculate_signals", symbol |-> event.type, N |-> 1,
                       status |-> st.status, value |-> <<>>, exhausted |-> FALSE]
    /\ UNCHANGED <<build, flavor, symbol_list, source, symbol_data, cursor, all_data_dic,
                   latest_symbol_data, continue_backtest, calls>>

\* ticks of the handler, and events of any type handed to the strategy
NextStrategy ==
    \/ update_bars
    \/ \E type \in EventTypes : calculate_signals([type |-> type])

SpecStrategy == Init /\ [][NextStrategy]_vars

-----------------------------------------------------------------------------
(* Vocabulary of the properties *)

\* the number of availability (Market) events in a queue
MarketCount(queue) == Cardinality({i \in 1..Len(queue) : queue[i].type = "MARKET"})

\* a step that is one call of update_bars
TickStep == calls' = calls + 1

\* the last min(n, Len(list)) elements of a list
LastN(list, n) ==
    LET k == IF n < Len(list) THEN n ELSE Len(list)
    IN  SubSeq(list, Len(list) - k + 1, Len(list))

Configured(symbol) == symbol \in Range(symbol_list)

-----------------------------------------------------------------------------
(* C1 - C4 *)

\* C1: a tick in which the source is found exhausted pushes no availability
\* event: the queue after the tick is the queue before it.
C1_NoEventOnExhaustedTick ==
    [][(TickStep /\ last'.exhausted) => events' = events]_vars

\* C2: once the continuation flag has been cleared, no further availability
\* event is enqueued, whatever calls follow.
C2_NoEventAfterStopped ==
    [][(~continue_backtest) => MarketCount(events') = MarketCount(events)]_vars

\* C3: a tick in which no symbol is exhausted (Advanced) pushes exactly one
\* availability event, however many symbols are configured.
C3_OneEventPerAdvancedTick ==
    [][(TickStep /\ ~last'.exhausted)
          => /\ MarketCount(events') = MarketCount(events) + 1
             /\ Len(events') = Len(events) + 1]_vars

\* C3 witness: an Advanced tick of a handler with two symbols, both of which
\* received a bar, has left one event per tick in the queue.
C3_Witness ==
    /\ last.op = "update_bars" /\ ~last.exhausted
    /\ Len(symbol_list) = 2
    /\ calls = 2 /\ MarketCount(events) = 2
    /\ \A s \in Range(symbol_list) : Len(latest_symbol_data[s]) = 2

\* C4: get_latest_bars(s, N) that returns for a configured symbol returns the
\* last min(N, len) bars of the symbol's buffer, in order; for N = 0 nothing.
C4_LatestBarsAreLastMinN ==
    (last.op = "get_latest_bars" /\ Configured(last.symbol) /\ last.status = "ok")
        => last.value = LastN(latest_symbol_data[last.symbol], last.N)

-----------------------------------------------------------------------------
(* Vocabulary of the alignment properties, read off the source data itself *)

\* the instant an index label stands for
DateOf(label) == IF flavor = "csv" THEN strptime(label) ELSE label

\* the data lines of symbol s's file or table
DataLines(s) == IF flavor = "csv" THEN Tail(source[s]) ELSE source[s]

\* the instants at which symbol s has a raw observation
RawDates(s) == {DateOf(DataLines(s)[i][1]) : i \in 1..Len(DataLines(s))}

\* the six value columns of symbol s's raw observation at instant d
RawRowAt(s, d) ==
    LET l == CHOOSE l \in Range(DataLines(s)) : DateOf(l[1]) = d
    IN  <<l[2], l[3], l[4], l[5], l[6], l[7]>>

\* the instants of symbol s's aligned series, in series order
CalendarOf(s) == [i \in 1..Len(symbol_data[s]) |-> DateOf(symbol_data[s][i].index)]

\* the sorted union of every configured symbol's raw instants
SortedUnion == SortedSeq(UNION {RawDates(s) : s \in Range(symbol_list)})

\* the greatest raw instant of s strictly before t
PriorRawDate(s, t) == Max({d \in RawDates(s) : d < t})

\* t is a gap of s: no raw observation at t, but an earlier one
IsGap(s, t) == t \notin RawDates(s) /\ \E d \in RawDates(s) : d < t

-----------------------------------------------------------------------------
(* C5 - C7 *)

\* C5: the calendar every symbol is reindexed on is the sorted union of all
\* symbols' raw instants, and a symbol's aligned series has a value at every
\* calendar instant at or after the symbol's first raw observation.
C5_CalendarIsSortedUnion ==
    \A s \in Range(symbol_list) :
        /\ CalendarOf(s) = SortedUnion
        /\ \A i \in 1..Len(symbol_data[s]) :
              (RawDates(s) # {} /\ CalendarOf(s)[i] >= Min(RawDates(s)))
                  => symbol_data[s][i].row # NaNRow

\* C6: at a calendar instant where a symbol has no raw observation but has an
\* earlier one, the aligned row, and the bar replayed from it, carry the raw
\* values of the symbol's greatest raw instant strictly before it.
C6_ForwardFill ==
    \A s \in Range(symbol_list) :
        /\ \A i \in 1..Len(symbol_data[s]) :
              IsGap(s, CalendarOf(s)[i])
                  => symbol_data[s][i].row = RawRowAt(s, PriorRawDate(s, CalendarOf(s)[i]))
        /\ \A k \in 1..Len(latest_symbol_data[s]) :
              LET bar == latest_symbol_data[s][k]
              IN  IsGap(s, bar[2])
                    => LET r == RawRowAt(s, PriorRawDate(s, bar[2]))
                       IN  bar = <<s, bar[2], r[1], r[2], r[3], r[4], r[5]>>

\* C7: the buffer of a symbol that has raw observations holds no bar for an
\* instant earlier than the symbol's first raw observation, and no bar
\* without values.
C7_NoLeadingGapBar ==
    \A s \in Range(symbol_list) :
        RawDates(s) # {} =>
            \A k \in 1..Len(latest_symbol_data[s]) :
                LET bar == latest_symbol_data[s][k]
                IN  /\ bar[2] >= Min(RawDates(s))
                    /\ bar[3] # NaN

-----------------------------------------------------------------------------
(* C8 - C10 *)

\* C8: over every step (tick or query) no symbol's cursor decreases, and no
\* symbol's buffer gets shorter or grows by more than one bar.
C8_Monotonic ==
    [][\A s \in Range(symbol_list) :
          /\ cursor'[s] >= cursor[s]
          /\ Len(latest_symbol_data'[s]) >= Len(latest_symbol_data[s])
          /\ Len(latest_symbol_data'[s]) <= Len(latest_symbol_data[s]) + 1]_vars

\* C8 witness: two symbols, ticks past the end of the data with a query made
\* last; cursors and buffers stand at the full length of the series.
C8_Witness ==
    /\ Len(symbol_list) = 2
    /\ ~continue_backtest /\ calls >= 4
    /\ last.op = "get_latest_bars"
    /\ \A s \in Range(symbol_list) :
          cursor[s] = 2 /\ Len(latest_symbol_data[s]) = 2

\* the bars of the data lines of s's CSV file, in file order
FileBars(s) ==
    LET lines == Tail(source[s])
    IN  [i \in 1..Len(lines) |->
            <<s, strptime(lines[i][1]), lines[i][2], lines[i][3], lines[i][4],
              lines[i][5], lines[i][6]>>]

C10_EmptyBufferDivergence ==
    (/\ last.op = "get_latest_bars"
     /\ Configured(last.symbol)
     /\ latest_symbol_data[last.symbol] = <<>>)
        => /\ flavor = "csv" => (last.status = "ok" /\ last.value = <<>>)
           /\ flavor = "sql" => last.status = "NotInitialized"

\* C10 witness: the store backend queried with N = 2 before any tick.
C10_Witness ==
    /\ flavor = "sql" /\ calls = 0
    /\ last.op = "get_latest_bars" /\ Configured(last.symbol) /\ last.N = 2
    /\ latest_symbol_data[last.symbol] = <<>>
    /\ last.status = "NotInitialized"

-----------------------------------------------------------------------------
(* C11, C12 *)

\* a step that is one call of the named query
QueryStep(op) == last'.op = op /\ calls' = calls

\* what a query leaves alone: buffers, cursors, flag and queue
ReplayState == <<latest_symbol_data, cursor, continue_backtest, events>>

\* C11: on the store backend get_latest_bar and get_latest_bar_datetime fail
\* with SymbolNotFound for an unknown symbol and with NotInitialized for a
\* configured symbol whose buffer is empty; otherwise they return the last
\* bar of the buffer, respectively its timestamp; buffers, cursors and the
\* continuation flag are unchanged in every case.
C11_LatestBarAndTimestamp ==
    [][(QueryStep("get_latest_bar") \/ QueryStep("get_latest_bar_datetime")) =>
          LET s == last'.symbol
              r == last'
          IN  /\ UNCHANGED ReplayState
              /\ ~Configured(s) => r.status = "SymbolNotFound"
              /\ (Configured(s) /\ latest_symbol_data[s] = <<>>)
                    => r.status = "NotInitialized"
              /\ (Configured(s) /\ latest_symbol_data[s] # <<>>)
                    => /\ r.status = "ok"
                       /\ r.value =
                            IF r.op = "get_latest_bar"
                            THEN latest_symbol_data[s][Len(latest_symbol_data[s])]
                            ELSE latest_symbol_data[s][Len(latest_symbol_data[s])][2]]_vars

\* C11 witness: get_latest_bar on a buffer of two bars returned the second.
C11_Witness ==
    /\ flavor = "sql"
    /\ last.op = "get_latest_bar" /\ last.status = "ok"
    /\ Len(latest_symbol_data[last.symbol]) = 2
    /\ last.value = latest_symbol_data[last.symbol][2]
    /\ last.value # latest_symbol_data[last.symbol][1]

\* C12: a call of get_latest_bars, whatever its outcome, leaves every cursor
\* and buffer, the continuation flag and the queue unchanged; a step that
\* changes a cursor or a buffer is a tick.
C12_GetLatestBarsIsPureRead ==
    [][/\ QueryStep("get_latest_bars") => UNCHANGED ReplayState
       /\ (cursor' # cursor \/ latest_symbol_data' # latest_symbol_data) => TickStep]_vars

\* C12 witness: get_latest_bars returned two bars of a three-bar buffer.
C12_Witness ==
    /\ last.op = "get_latest_bars" /\ last.status = "ok"
    /\ Len(last.value) = 2
    /\ Len(latest_symbol_data[last.symbol]) = 3
    /\ cursor[last.symbol] = 3

-----------------------------------------------------------------------------
(* C14 - C16, C18 *)

\* symbol s has an entry its iterator has not yet delivered
HasNext(s) == cursor[s] < Len(symbol_data[s])

\* the bar of an entry of symbol s's aligned series
BarOfRow(s, r) == <<s, DateOf(r.index), r.row[1], r.row[2], r.row[3], r.row[4], r.row[5]>>

C15_Lockstep ==
    \A s, u \in Range(symbol_list) :
        /\ Len(symbol_data[s]) = Len(symbol_data[u])
        /\ Len(latest_symbol_data[s]) = Len(latest_symbol_data[u])
        /\ cursor[s] = cursor[u]
        /\ HasNext(s) <=> HasNext(u)

\* C15 witness: two symbols whose raw data differ in length, two ticks made,
\* both buffers hold two bars.
C15_Witness ==
    /\ Len(symbol_list) = 2
    /\ Cardinality(RawDates(symbol_list[1])) = 3
    /\ Cardinality(RawDates(symbol_list[2])) = 1
    /\ calls = 2
    /\ \A s \in Range(symbol_list) : Len(latest_symbol_data[s]) = 2

\* C16: once the continuation flag is cleared no step sets it again, and
\* every later step leaves all buffers and cursors as they are.
C16_StoppedIsTerminal ==
    [][(~continue_backtest) =>
          /\ ~continue_backtest'
          /\ latest_symbol_data' = latest_symbol_data
          /\ cursor' = cursor]_vars

\* C16 witness: two ticks made after the tick that cleared the flag; the
\* buffers still hold the three bars of the series.
C16_Witness ==
    /\ ~continue_backtest
    /\ last.op = "update_bars" /\ last.exhausted /\ calls = 5
    /\ \A s \in Range(symbol_list) :
          Len(symbol_data[s]) = 3 /\ Len(latest_symbol_data[s]) = 3 /\ cursor[s] = 3

\* C18: after k successful ticks each buffer is the first k entries of the
\* symbol's aligned series, in series order (k is the number of ticks made,
\* up to the length of the series); the store backend's retained copy is
\* that series.
C18_PrefixInvariant ==
    \A s \in Range(symbol_list) :
        LET k == IF calls < Len(symbol_data[s]) THEN calls ELSE Len(symbol_data[s])
        IN  /\ cursor[s] = k
            /\ latest_symbol_data[s] = [i \in 1..k |-> BarOfRow(s, symbol_data[s][i])]
            /\ flavor = "sql" => all_data_dic[s] = symbol_data[s]

\* C18 witness: two ticks into series of three entries, two symbols.
C18_Witness ==
    /\ Len(symbol_list) = 2 /\ calls = 2 /\ continue_backtest
    /\ \A s \in Range(symbol_list) :
          /\ Len(symbol_data[s]) = 3
          /\ latest_symbol_data[s] = <<BarOfRow(s, symbol_data[s][1]),
                                       BarOfRow(s, symbol_data[s][2])>>
          /\ symbol_data[s][1] # symbol_data[s][2]

-----------------------------------------------------------------------------
(* C17 *)

\* the number of instants of the calendar the symbols were reindexed on
CalendarLength == Len(symbol_data[symbol_list[1]])

-----------------------------------------------------------------------------
(* C13 *)

\* the handler under construction holds no symbol data at all
NothingLoaded ==
    /\ symbol_data = <<>>
    /\ latest_symbol_data = <<>>
    /\ all_data_dic = <<>>

\* C13: when the connection of the store backend cannot be opened, whichever
\* flavor is asked for, construction never returns a handler: it is still
\* before its first query or has been left by an exception that names the
\* error, no query has run, and no symbol's data has been stored
C13_ConnectionFailureAborts ==
    build.fault # "none" =>
        /\ build.pc \in {"connect", "load", "aborted"}
        /\ build.pc = "aborted" => build.error # ""
        /\ build.loaded = 0
        /\ build.queries = 0
        /\ NothingLoaded

\* an engine was made, the first symbol's query could not open the
\* connection, and construction ended there with two symbols to load
C13_Witness ==
    /\ build.db_flavor = "SQLAlchemy"
    /\ build.fault = "unreachable"
    /\ build.connection = "engine"
    /\ build.pc = "aborted"
    /\ build.error = "OperationalError"
    /\ Len(symbol_list) = 2
    /\ NothingLoaded

-----------------------------------------------------------------------------
(* C19 *)

\* the positions of the queue that hold a SignalEvent for symbol s
SignalsFor(queue, s) ==
    {i \in 1..Len(queue) : queue[i].type = "SIGNAL" /\ queue[i].symbol = s}

\* C19: the queue never holds more than one signal per symbol, and every
\* signal is LONG; a signal for s is enqueued only by calculate_signals on a
\* MARKET event, at a moment when s has at least one bar in its buffer; and
\* bought[s], once true, stays true
C19_SingleSignalPerSymbol ==
    /\ [](\A s \in Range(symbol_list) :
            /\ Cardinality(SignalsFor(events, s)) <= 1
            /\ \A i \in SignalsFor(events, s) : events[i].signal_type = "LONG")
    /\ [][\A s \in Range(symbol_list) :
            SignalsFor(events', s) # SignalsFor(events, s) =>
                /\ last'.op = "calculate_signals"
                /\ last'.symbol = "MARKET"
                /\ Len(latest_symbol_data[s]) >= 1
                /\ ~bought[s] /\ bought'[s]]_vars
    /\ [][\A s \in Range(symbol_list) : bought[s] => bought'[s]]_vars

\* two symbols, each with its one signal; ticks went on after the signals
\* and the strategy has just handled the MARKET event of a later tick
\* without enqueueing anything
C19_Witness ==
    /\ Len(symbol_list) = 2
    /\ \A s \in Range(symbol_list) :
          /\ bought[s]
          /\ Cardinality(SignalsFor(events, s)) = 1
          /\ Len(latest_symbol_data[s]) >= 2
    /\ last.op = "calculate_signals"
    /\ last.symbol = "MARKET"
    /\ events[Len(events)].type = "MARKET"

====
